---- MODULE Spec2Model ----
(***************************************************************************)
(* Day-timeline engine of myentropy: the interval normalizer               *)
(* (calendar_loader.py), the strict schedule validators (focus.py,         *)
(* antientropy1.py), the activity resolver with its classification         *)
(* oracle (focus.py, label_classifier.py), the time parser and the two     *)
(* scorers (focus.py, antientropy1.py).                                    *)
(***************************************************************************)
EXTENDS Integers, Sequences, FiniteSets, TLC

VARIABLES
    rows,        \* normalizer: the schedule rows handed to the normalizer / validator
    npc,         \* normalizer: which function has been applied to rows
    merged,      \* normalizer: result of merge_overlapping_rows(rows)
    filled,      \* normalizer: result of fill_gaps(rows)
    refilled,    \* normalizer: result of fill_gaps(filled)
    used_map,    \* normalizer: the activity map handed to load_schedule_categories
    validated,   \* normalizer: outcome of the strict validator
    cache,       \* resolver: the caller-owned cache dict, shared by successive runs
    rpc,         \* resolver: "idle", or "waiting" for the oracle's answer to a request
    call,        \* resolver: arguments of the current build_resolved_activity_map call
    stack,       \* resolver: the classify_many frames blocked in the recursion
    oracle_log,  \* resolver: what the oracle was asked and answered during this run
    outcome,     \* resolver: how the last build_resolved_activity_map call ended
    categories,  \* scorers: the 1440-entry timeline handed to the scorers
    blocks,      \* scorers: result of build_block_labels(categories)
    entropy,     \* scorers: what antientropy1.main computes from the blocks
    focus,       \* scorers: result of compute_focus_from_categories(categories)
    time_value,  \* parser: the text handed to parse_time_to_minute
    time_result  \* parser: outcome of parse_time_to_minute(time_value)

nvars == <<rows, npc, merged, filled, refilled, used_map, validated>>
rvars == <<cache, rpc, call, stack, oracle_log, outcome>>
svars == <<categories, blocks, entropy, focus>>
pvars == <<time_value, time_result>>
vars == <<rows, npc, merged, filled, refilled, used_map, validated,
          cache, rpc, call, stack, oracle_log, outcome,
          categories, blocks, entropy, focus, time_value, time_result>>

----------------------------------------------------------------------------
(* Program constants and model bounds *)

DAY == 1440

MaxRows == 3

\* Most distinct raw labels in the rows of one resolver run.
MaxLabels == 2

\* Most filler labels (unknown everywhere) added to a run without oracle.
MaxFill == 11

\* "retry_count < 2"
RETRY_LIMIT == 2

\* "unknown[:10]"
PREVIEW_MAX == 10

NoneVal == "None"

GAP_LABEL == "unscheduled"

CATEGORIES == {"core", "self-care", "peripheral", "waste"}

\* The part of the builtin tables the model's labels use.
ActivityMap == [l \in {"work", "sleep", "tv", "reading"} |->
                  CASE l = "work" -> "core"
                    [] l = "sleep" -> "self-care"
                    [] l = "tv" -> "waste"
                    [] l = "reading" -> "peripheral"]

\* str.strip().lower() on the raw labels of the model; every other label of the
\* model is already trimmed and lowercase.
Normalize(label) ==
    CASE label = " Work " -> "work"
      [] label = "SLEEP" -> "sleep"
      [] label = " Yoga " -> "yoga"
      [] label = "Zumba" -> "zumba"
      [] OTHER -> label

----------------------------------------------------------------------------
(* Interval normalizer: calendar_loader.py *)

Row(s, e, a) == [start |-> s, end |-> e, activity |-> a]

\* Mutant of MergeStep: an interval that starts inside covered time is kept whole.
MergeStepKeepsWhole(acc, r) ==
    IF r.start >= acc.current_end \/ r.end > acc.current_end
    THEN [merged |-> Append(acc.merged, Row(r.start, r.end, r.activity)),
          current_end |-> r.end]
    ELSE acc

\* One iteration of the loop of merge_overlapping_rows on accumulator
\* acc = [merged, current_end].
MergeStep(acc, r) ==
    IF r.start >= acc.current_end
    THEN [merged |-> Append(acc.merged, Row(r.start, r.end, r.activity)),
          current_end |-> r.end]
    ELSE IF r.end > acc.current_end
         THEN [merged |-> Append(acc.merged, Row(acc.current_end, r.end, r.activity)),
               current_end |-> r.end]
         ELSE acc

RECURSIVE MergeLoop(_, _, _)
MergeLoop(rs, i, acc) ==
    IF i > Len(rs) THEN acc ELSE MergeLoop(rs, i + 1, MergeStep(acc, rs[i]))

merge_overlapping_rows(rs) ==
    IF rs = <<>> THEN <<>>
    ELSE MergeLoop(rs, 1, [merged |-> <<>>, current_end |-> 0]).merged

\* Mutant of FillStep: a sentinel interval is also added where none is needed.
FillStepAlwaysSentinel(acc, r, gap_label) ==
    LET f1 == IF r.start >= acc.current
              THEN Append(acc.filled, Row(acc.current, r.start, gap_label))
              ELSE acc.filled
        start == IF r.start < acc.current THEN acc.current ELSE r.start
    IN  IF start < r.end
        THEN [filled |-> Append(f1, Row(start, r.end, r.activity)), current |-> r.end]
        ELSE [filled |-> f1, current |-> acc.current]

\* Mutant of FillStep: no sentinel interval is put before an interval.
FillStepNoSentinel(acc, r, gap_label) ==
    LET start == IF r.start < acc.current THEN acc.current ELSE r.start
    IN  IF start < r.end
        THEN [filled |-> Append(acc.filled, Row(start, r.end, r.activity)),
              current |-> r.end]
        ELSE [filled |-> acc.filled, current |-> acc.current]

\* One iteration of the loop of fill_gaps on accumulator acc = [filled, current].
FillStep(acc, r, gap_label) ==
    LET f1 == IF r.start > acc.current
              THEN Append(acc.filled, Row(acc.current, r.start, gap_label))
              ELSE acc.filled
        start == IF r.start < acc.current THEN acc.current ELSE r.start
    IN  IF start < r.end
        THEN [filled |-> Append(f1, Row(start, r.end, r.activity)), current |-> r.end]
        ELSE [filled |-> f1, current |-> acc.current]

RECURSIVE FillLoop(_, _, _, _)
FillLoop(rs, i, acc, gap_label) ==
    IF i > Len(rs) THEN acc ELSE FillLoop(rs, i + 1, FillStep(acc, rs[i], gap_label), gap_label)

\* Mutant of FillTail: the trailing sentinel interval is forgotten.
FillTailForgotten(acc, gap_label) == acc.filled

\* The trailing sentinel interval of fill_gaps.
FillTail(acc, gap_label) ==
    IF acc.current < DAY
    THEN Append(acc.filled, Row(acc.current, DAY, gap_label))
    ELSE acc.filled

fill_gaps(rs, gap_label) ==
    FillTail(FillLoop(merge_overlapping_rows(rs), 1,
                      [filled |-> <<>>, current |-> 0], gap_label),
             gap_label)

----------------------------------------------------------------------------
(* Strict validation path: focus.py load_schedule_categories,              *)
(* antientropy1.py load_schedule_minutes                                   *)

Minutes == 0 .. (DAY - 1)

\* minutes = [None] * 1440
EmptyMinutes == [t \in Minutes |-> NoneVal]

Returned(ms) ==
    [status |-> "returned", error |-> "", minute |-> -1, label |-> "", minutes |-> ms]

Raised(kind, t, l) ==
    [status |-> "raised", error |-> kind, minute |-> t, label |-> l, minutes |-> <<>>]

\* The inner loop "for t in range(start, end)": the first minute already
\* assigned raises, otherwise the whole range is assigned.
AssignRange(acc, s, e, value) ==
    LET taken == {t \in s .. (e - 1) : acc.minutes[t] # NoneVal}
    IN  IF taken # {}
        THEN Raised("Overlapping schedule", CHOOSE t \in taken : \A u \in taken : t <= u, "")
        ELSE Returned([t \in Minutes |-> IF s <= t /\ t < e THEN value ELSE acc.minutes[t]])

\* One row of load_schedule_categories; acc is the outcome so far (a raise
\* ends the loop).
CategoriesStep(acc, r, activity_map) ==
    IF acc.status = "raised" THEN acc
    ELSE LET key == Normalize(r.activity)
         IN  IF key \notin DOMAIN activity_map
             THEN Raised("Unknown activity label", -1, r.activity)
             ELSE AssignRange(acc, r.start, r.end, activity_map[key])

RECURSIVE CategoriesLoop(_, _, _, _)
CategoriesLoop(rs, i, acc, activity_map) ==
    IF i > Len(rs) THEN acc
    ELSE CategoriesLoop(rs, i + 1, CategoriesStep(acc, rs[i], activity_map), activity_map)

\* Mutant of CoverageCheck: uncovered minutes are let through.
CoverageCheckSkipped(acc) == acc

\* The final "if any(v is None for v in minutes)".
CoverageCheck(acc) ==
    IF acc.status = "raised" THEN acc
    ELSE IF \E t \in Minutes : acc.minutes[t] = NoneVal
         THEN Raised("Schedule does not cover the full 24h day", -1, "")
         ELSE acc

load_schedule_categories(rs, activity_map) ==
    CoverageCheck(CategoriesLoop(rs, 1, Returned(EmptyMinutes), activity_map))

\* LABELS of antientropy1.py, inverted by build_cat2mode.
Cat2Mode == [c \in {"work", "reading", "self", "food", "commute", "social-media"} |->
               CASE c \in {"work", "reading"} -> "deep"
                 [] c = "self" -> "misc"
                 [] c \in {"food", "commute"} -> "routine"
                 [] c = "social-media" -> "waste"]

\* One CSV row of load_schedule_minutes, after parse_time_to_minute.
MinutesStep(acc, r, cat2mode) ==
    IF acc.status = "raised" THEN acc
    ELSE IF ~(0 <= r.start /\ r.start < r.end /\ r.end <= DAY)
         THEN Raised("Invalid range", -1, "")
         ELSE AssignRange(acc, r.start, r.end,
                          IF r.activity \in DOMAIN cat2mode
                          THEN cat2mode[r.activity] ELSE r.activity)

RECURSIVE MinutesLoop(_, _, _, _)
MinutesLoop(rs, i, acc, cat2mode) ==
    IF i > Len(rs) THEN acc
    ELSE MinutesLoop(rs, i + 1, MinutesStep(acc, rs[i], cat2mode), cat2mode)

load_schedule_minutes(rs, cat2mode) ==
    CoverageCheck(MinutesLoop(rs, 1, Returned(EmptyMinutes), cat2mode))

----------------------------------------------------------------------------
(* Time parser: focus.py / antientropy1.py parse_time_to_minute (the two   *)
(* copies are the same text). A text is a sequence of characters.          *)

DigitChars == <<"0", "1", "2", "3", "4", "5", "6", "7", "8", "9">>

IsDigit(c) == \E i \in DOMAIN DigitChars : DigitChars[i] = c

DigitValue(c) == (CHOOSE i \in DOMAIN DigitChars : DigitChars[i] = c) - 1

\* str.strip(): leading and trailing blanks removed.
RECURSIVE Strip(_)
Strip(s) ==
    IF s = <<>> THEN s
    ELSE IF s[1] = " " THEN Strip(Tail(s))
    ELSE IF s[Len(s)] = " " THEN Strip(SubSeq(s, 1, Len(s) - 1))
    ELSE s

\* str.split(":"): the pieces between the colons, empty pieces included.
RECURSIVE Split(_, _, _)
Split(s, i, piece) ==
    IF i > Len(s) THEN <<piece>>
    ELSE IF s[i] = ":" THEN <<piece>> \o Split(s, i + 1, <<>>)
    ELSE Split(s, i + 1, Append(piece, s[i]))

RECURSIVE DigitsValue(_, _, _)
DigitsValue(s, i, n) ==
    IF i > Len(s) THEN n ELSE DigitsValue(s, i + 1, 10 * n + DigitValue(s[i]))

\* int(part): blanks around, an optional sign, then decimal digits only.
IntOf(part) ==
    LET s == Strip(part)
        signed == s # <<>> /\ s[1] \in {"-", "+"}
        digits == IF signed THEN Tail(s) ELSE s
    IN  IF digits = <<>> \/ \E i \in DOMAIN digits : ~IsDigit(digits[i])
        THEN [ok |-> FALSE, n |-> 0]
        ELSE [ok |-> TRUE,
              n |-> IF signed /\ s[1] = "-" THEN 0 - DigitsValue(digits, 1, 0)
                    ELSE DigitsValue(digits, 1, 0)]

TimeReturned(n) == [status |-> "returned", error |-> "", minute |-> n]

TimeRaised(kind) == [status |-> "raised", error |-> kind, minute |-> -1]

\* Mutant of InClockRange: hour 24 is let through with any minute.
InClockRangeInclusive(hour, minute) ==
    (0 <= hour /\ hour <= 24) /\ (0 <= minute /\ minute < 60)

\* (0 <= hour < 24) and (0 <= minute < 60)
InClockRange(hour, minute) ==
    (0 <= hour /\ hour < 24) /\ (0 <= minute /\ minute < 60)

parse_time_to_minute(text) ==
    LET parts == Split(Strip(text), 1, <<>>)
    IN  IF Len(parts) # 2 THEN TimeRaised("Invalid time")
        ELSE LET hour == IntOf(parts[1])
                 minute == IntOf(parts[2])
             IN  IF ~hour.ok \/ ~minute.ok THEN TimeRaised("invalid literal for int()")
                 ELSE IF hour.n = 24 /\ minute.n = 0 THEN TimeReturned(DAY)
                 ELSE IF ~InClockRange(hour.n, minute.n) THEN TimeRaised("Invalid time")
                 ELSE TimeReturned(hour.n * 60 + minute.n)

----------------------------------------------------------------------------
(* Scorers: focus.py compute_switch_penalty, compute_focus_from_categories, *)
(* antientropy1.py build_block_labels, compute_entropy, main                *)

SetMin(S) == CHOOSE t \in S : \A u \in S : t <= u

\* SWITCH_WEIGHTS, in tenths: every penalty of the model is in tenths.
SWITCH_WEIGHTS ==
    [p \in {q \in CATEGORIES \X CATEGORIES : q[1] # q[2]} |->
        CASE p = <<"core", "self-care">> -> 6
          [] p = <<"core", "waste">> -> 10
          [] p = <<"core", "peripheral">> -> 5
          [] p = <<"self-care", "core">> -> 2
          [] p = <<"self-care", "waste">> -> 7
          [] p = <<"self-care", "peripheral">> -> 3
          [] p = <<"waste", "core">> -> 0
          [] p = <<"waste", "self-care">> -> 4
          [] p = <<"waste", "peripheral">> -> 6
          [] p = <<"peripheral", "core">> -> 2
          [] p = <<"peripheral", "self-care">> -> 4
          [] p = <<"peripheral", "waste">> -> 8]

\* The minutes t of range(1, 1440) at which "if prev != curr" is taken.
SwitchPoints(cats) == {t \in 1 .. (DAY - 1) : cats[t - 1] # cats[t]}

\* Mutant of PenaltyStep: the weight of the reverse transition is added.
PenaltyStepReversed(acc, cats, t) ==
    [total |-> acc.total + SWITCH_WEIGHTS[<<cats[t], cats[t - 1]>>],
     switches |-> acc.switches + 1]

\* Mutant of PenaltyStep: every change costs the same.
PenaltyStepUnweighted(acc, cats, t) ==
    [total |-> acc.total + 1, switches |-> acc.switches + 1]

\* The body of "if prev != curr" at minute t.
PenaltyStep(acc, cats, t) ==
    [total |-> acc.total + SWITCH_WEIGHTS[<<cats[t - 1], cats[t]>>],
     switches |-> acc.switches + 1]

\* The loop of compute_switch_penalty over the minutes still ahead at which
\* the category changes, in ascending order; the other minutes change nothing.
RECURSIVE PenaltyLoop(_, _, _)
PenaltyLoop(cats, ahead, acc) ==
    IF ahead = {} THEN acc
    ELSE LET t == SetMin(ahead)
         IN  PenaltyLoop(cats, ahead \ {t}, PenaltyStep(acc, cats, t))

compute_switch_penalty(cats) ==
    PenaltyLoop(cats, SwitchPoints(cats), [total |-> 0, switches |-> 0])

\* float("inf")
Infinity == [kind |-> "inf", num |-> 0, den |-> 0]

\* num / den on floats: a zero divisor raises ZeroDivisionError. The quotient
\* is kept as the pair (num, den); den_zero tells whether den == 0.
Quotient(num, den, den_zero) ==
    IF den_zero THEN [kind |-> "ZeroDivisionError", num |-> num, den |-> den]
    ELSE [kind |-> "finite", num |-> num, den |-> den]

\* Mutant of FocusOf: the division is made whatever the penalty.
FocusAlwaysDivided(penalty) == Quotient(1000, penalty, penalty = 0)

\* if penalty == 0: focus = float("inf") else: focus = 1000 / penalty
FocusOf(penalty) ==
    IF penalty = 0 THEN Infinity ELSE Quotient(1000, penalty, penalty = 0)

compute_focus_from_categories(cats) ==
    LET r == compute_switch_penalty(cats)
    IN  [focus |-> FocusOf(r.total), penalty |-> r.total, switches |-> r.switches]

\* The entries at which "if label != prev" is taken: the first one
\* (prev is None) and every entry that differs from the one before.
BlockStarts(minutes) == {t \in Minutes : t = 0 \/ minutes[t] # minutes[t - 1]}

\* Mutant of BlockName: the ordinal is left out of the name.
BlockNameWithoutOrdinal(label, block_index) == <<label, 0>>

\* f"{label}_{block_index}": the decimal ordinal follows the last underscore,
\* so the name determines the pair and the pair stands for the name.
BlockName(label, block_index) == <<label, block_index>>

\* The body of "if label != prev" at entry t.
BlockStep(acc, minutes, t) ==
    [block_index |-> acc.block_index + 1,
     block_order |-> Append(acc.block_order, BlockName(minutes[t], acc.block_index + 1)),
     opened |-> Append(acc.opened, t)]

\* The loop of build_block_labels over the entries still ahead that open a
\* block, in ascending order; opened remembers where each block began.
RECURSIVE BlockLoop(_, _, _)
BlockLoop(minutes, ahead, acc) ==
    IF ahead = {} THEN acc
    ELSE LET t == SetMin(ahead)
         IN  BlockLoop(minutes, ahead \ {t}, BlockStep(acc, minutes, t))

\* Every entry appends the current block_name and adds 1 to its duration.
build_block_labels(minutes) ==
    LET acc == BlockLoop(minutes, BlockStarts(minutes),
                         [block_index |-> -1, block_order |-> <<>>, opened |-> <<>>])
        current(t) == CHOOSE i \in DOMAIN acc.opened :
                         /\ acc.opened[i] <= t
                         /\ \A j \in DOMAIN acc.opened : acc.opened[j] <= t => j <= i
        block_labels == [t \in Minutes |-> acc.block_order[current(t)]]
    IN  [block_labels |-> block_labels,
         block_durations |->
             [name \in {acc.block_order[i] : i \in DOMAIN acc.block_order} |->
                 Cardinality({t \in Minutes : block_labels[t] = name})],
         block_order |-> acc.block_order]

\* compute_entropy: h is the sum of -(count/1440) * log(count/1440) over the
\* blocks, kept as the bag of the counts it was summed from.
compute_entropy(block_durations) ==
    [c \in {block_durations[name] : name \in DOMAIN block_durations} |->
        Cardinality({name \in DOMAIN block_durations : block_durations[name] = c})]

\* Mutant of EntropyIsZero: only the empty sum counts as zero.
EntropyIsZeroWhenEmpty(h) == h = <<>>

\* h == 0: a term is 0.0 for count 1440 (p is 1.0, log(1.0) is 0.0) and
\* positive for a count between 1 and 1439.
EntropyIsZero(h) == \A c \in DOMAIN h : c = DAY

\* Mutant of AntientropyOf: the division is made whatever h_scaled.
AntientropyAlwaysDivided(h_scaled, h_scaled_zero) == Quotient(1000, h_scaled, h_scaled_zero)

\* if h_scaled == 0: antientropy = float("inf") else: 1000 / h_scaled
AntientropyOf(h_scaled, h_scaled_zero) ==
    IF h_scaled_zero THEN Infinity ELSE Quotient(1000, h_scaled, h_scaled_zero)

\* antientropy1.main after build_block_labels: k, h, h_norm * k, antientropy.
\* h_max = log(1440) is positive, so h_norm * k is 0 when h is 0 or k is 0.
EntropyScore(block_durations) ==
    LET k == Cardinality(DOMAIN block_durations)
        h == compute_entropy(block_durations)
        h_scaled == [h |-> h, k |-> k]
        h_scaled_zero == EntropyIsZero(h) \/ k = 0
    IN  [k |-> k, h |-> h, h_zero |-> EntropyIsZero(h), h_scaled_zero |-> h_scaled_zero,
         antientropy |-> AntientropyOf(h_scaled, h_scaled_zero)]

----------------------------------------------------------------------------
(* Activity resolver: focus.py build_resolved_activity_map,                *)
(* label_classifier.py GrokClassifier.classify_many                        *)

EmptyDict == <<>>

Range(seq) == {seq[i] : i \in DOMAIN seq}

Min(a, b) == IF a < b THEN a ELSE b

\* dict.update: the entries of g replace and extend those of f.
Update(f, g) ==
    [k \in DOMAIN f \cup DOMAIN g |-> IF k \in DOMAIN g THEN g[k] ELSE f[k]]

\* Filler labels, unknown to the builtin map and never cached.
FillerLabels == <<"extra01", "extra02", "extra03", "extra04", "extra05", "extra06",
                  "extra07", "extra08", "extra09", "extra10", "extra11", "extra12">>

\* Python's string order on the normalized labels of the model.
LabelOrder == FillerLabels \o <<"reading", "sleep", "tv", "work", "yoga", "zumba">>

\* sorted(set_of_labels)
Sorted(S) == SelectSeq(LabelOrder, LAMBDA l : l \in S)

\* Mutant of ResolvedBeforeOracle: the builtin map overrides the cache.
ResolvedBuiltinWins(activity_map, cache_given, cache_arg) ==
    IF cache_given /\ cache_arg # EmptyDict
    THEN Update([k \in {c \in DOMAIN cache_arg : cache_arg[c] \in CATEGORIES} |-> cache_arg[k]],
                activity_map)
    ELSE activity_map

\* resolved = dict(activity_map); if cache: resolved.update(valid cache entries)
ResolvedBeforeOracle(activity_map, cache_given, cache_arg) ==
    IF cache_given /\ cache_arg # EmptyDict
    THEN Update(activity_map,
                [k \in {c \in DOMAIN cache_arg : cache_arg[c] \in CATEGORIES} |-> cache_arg[k]])
    ELSE activity_map

\* Mutant of UnknownLabels: the labels already resolved are not left out.
UnknownLabelsUnfiltered(labels, resolved) ==
    Sorted({Normalize(a) : a \in labels})

\* unknown = sorted({normalized row labels not in resolved})
UnknownLabels(labels, resolved) ==
    Sorted({Normalize(a) : a \in labels} \ DOMAIN resolved)

\* Mutant of Preview: every unknown label is named.
PreviewUnbounded(unknown) == unknown

\* preview = unknown[:10]
Preview(unknown) == SubSeq(unknown, 1, Min(PREVIEW_MAX, Len(unknown)))

Suffix(unknown) == IF Len(unknown) > PREVIEW_MAX THEN "..." ELSE ""

\* Mutant of CacheUpdate: the cache is replaced by the fresh classifications.
CacheReplaced(cache_given, cache_arg, classified) ==
    IF cache_given THEN classified ELSE cache_arg

\* if cache is not None: cache.update(classified)
CacheUpdate(cache_given, cache_arg, classified) ==
    IF cache_given THEN Update(cache_arg, classified) ELSE cache_arg

\* str(value).strip().lower() on the values the oracle sends.
NormalizeToken(value) ==
    CASE value = " Waste " -> "waste"
      [] value = "Core" -> "core"
      [] OTHER -> value

\* parse_json_object followed by the isinstance(parsed, dict) test: json.loads
\* of the whole text, else of the text between the first "{" and the last "}".
ParseJsonObject(content) ==
    CASE content.kind = "json_object" ->
            [raised |-> FALSE, error |-> "", parsed |-> content.object]
      [] content.kind = "wrapped_object" ->
            [raised |-> FALSE, error |-> "", parsed |-> content.object]
      [] content.kind = "non_object" ->
            [raised |-> TRUE, error |-> "LLM returned non-object JSON", parsed |-> EmptyDict]
      [] OTHER ->
            [raised |-> TRUE, error |-> "JSONDecodeError", parsed |-> EmptyDict]

\* The loop over activities_list: the valid answers.
ResponseMapping(activities_list, parsed) ==
    [item \in {a \in Range(activities_list) :
                  a \in DOMAIN parsed /\ NormalizeToken(parsed[a]) \in CATEGORIES}
       |-> NormalizeToken(parsed[item])]

\* The loop over activities_list: the absent and invalid ones, in order.
ResponseMissing(activities_list, parsed) ==
    SelectSeq(activities_list,
              LAMBDA a : ~(a \in DOMAIN parsed /\ NormalizeToken(parsed[a]) \in CATEGORIES))

\* Mutant of RetryAllowed: one retry too many.
RetryAllowedThrice(missing, retry_count) ==
    missing # <<>> /\ retry_count <= RETRY_LIMIT

\* if missing and retry_count < 2
RetryAllowed(missing, retry_count) ==
    missing # <<>> /\ retry_count < RETRY_LIMIT

\* Mutant of Fallback: nothing is defaulted.
FallbackSkipped(activities_list, mapping) == mapping

\* Final fallback: anything still missing defaults to peripheral.
Fallback(activities_list, mapping) ==
    [item \in DOMAIN mapping \cup Range(activities_list) |->
        IF item \in DOMAIN mapping THEN mapping[item] ELSE "peripheral"]

\* Return of the innermost classify_many through the frames that wait for it:
\* each takes the retry results into its mapping, then applies its fallback.
RECURSIVE Unwind(_, _)
Unwind(frames, result) ==
    IF frames = <<>> THEN result
    ELSE LET f == frames[Len(frames)]
         IN  Unwind(SubSeq(frames, 1, Len(frames) - 1),
                    Fallback(f.activities_list, Update(f.mapping, result)))

Frame(activities_list, mapping, retry_count) ==
    [activities_list |-> activities_list, mapping |-> mapping, retry_count |-> retry_count]

\* classify_calls and classify_arg: how often this run called
\* classifier.classify_many, and with which list.
NoCall == [labels |-> {}, classifier |-> "None", cache_given |-> FALSE,
           cache_before |-> EmptyDict, classify_calls |-> 0, classify_arg |-> <<>>]

NoResult == [status |-> "none", error |-> "", preview |-> <<>>, suffix |-> "",
             resolved |-> EmptyDict, classified |-> EmptyDict]

\* return resolved (classified: what classify_many returned, if it was called)
ReturnedMap(resolved, classified) ==
    [status |-> "returned", error |-> "", preview |-> <<>>, suffix |-> "",
     resolved |-> resolved, classified |-> classified]

\* Mutant of RaisedError: the error is swallowed and the builtin map returned.
RaisedErrorSwallowed(error, preview, suffix) ==
    [status |-> "returned", error |-> "", preview |-> <<>>, suffix |-> "",
     resolved |-> ActivityMap, classified |-> EmptyDict]

RaisedError(error, preview, suffix) ==
    [status |-> "raised", error |-> error, preview |-> preview, suffix |-> suffix,
     resolved |-> EmptyDict, classified |-> EmptyDict]

\* The record of the oracle traffic of one run: the number of requests, how
\* often each label was requested, the token of each label's first answer
\* that names a category, and the last request with the kind of content
\* received and its answers to the requested labels.
NoLog == [requests |-> 0, asked |-> EmptyDict, valid |-> EmptyDict,
          last |-> [request |-> <<>>, kind |-> "none", object |-> EmptyDict]]

\* The oracle's tokens that name a category, whatever their case and padding.
TokenCategory == [t \in {"core", " Waste "} |-> IF t = "core" THEN "core" ELSE "waste"]

\* The log after the answer `kind`/`object` to `request`.
Logged(log, request, kind, object) ==
    LET named == {a \in Range(request) :
                     a \in DOMAIN object /\ object[a] \in DOMAIN TokenCategory}
    IN  [requests |-> log.requests + 1,
         asked |-> [a \in DOMAIN log.asked \cup Range(request) |->
                       (IF a \in DOMAIN log.asked THEN log.asked[a] ELSE 0)
                       + (IF a \in Range(request) THEN 1 ELSE 0)],
         valid |-> [a \in DOMAIN log.valid \cup named |->
                       IF a \in DOMAIN log.valid THEN log.valid[a] ELSE object[a]],
         last |-> [request |-> request, kind |-> kind,
                   object |-> [a \in DOMAIN object \cap Range(request) |-> object[a]]]]

----------------------------------------------------------------------------
(* The state of each machine while another one runs *)

NoBlocks == [block_labels |-> <<>>, block_durations |-> <<>>, block_order |-> <<>>]

NoEntropy == [k |-> 0, h |-> <<>>, h_zero |-> FALSE, h_scaled_zero |-> FALSE,
              antientropy |-> [kind |-> "none", num |-> 0, den |-> 0]]

NoFocus == [focus |-> [kind |-> "none", num |-> 0, den |-> 0], penalty |-> 0, switches |-> 0]

NoParse == [status |-> "none", error |-> "", minute |-> -1]

NoOutcome == [status |-> "none", error |-> "", minute |-> -1, label |-> "", minutes |-> <<>>]

NormalizerOff ==
    /\ rows = <<>>
    /\ npc = "off"
    /\ merged = <<>>
    /\ filled = <<>>
    /\ refilled = <<>>
    /\ used_map = <<>>
    /\ validated = NoOutcome

ResolverOff ==
    /\ cache = <<>>
    /\ rpc = "off"
    /\ call = NoCall
    /\ stack = <<>>
    /\ oracle_log = NoLog
    /\ outcome = NoResult

ScorersOff ==
    /\ categories = <<>>
    /\ blocks = NoBlocks
    /\ entropy = NoEntropy
    /\ focus = NoFocus

ParserOff ==
    /\ time_value = <<>>
    /\ time_result = NoParse

----------------------------------------------------------------------------
(* Normalizer state machine: inputs and calls *)

\* Interval end points of the generated inputs.
Ticks == {0, 300, 900, DAY}

Intervals == {iv \in Ticks \X Ticks : iv[1] < iv[2]}

\* Generated rows carry a label that identifies their position in the list.
PositionLabels == <<"sleep", "work", "tv", "reading">>

LabelAt(i) == PositionLabels[((i - 1) % Len(PositionLabels)) + 1]

GeneratedRows ==
    UNION { { [i \in 1 .. k |-> Row(ivs[i][1], ivs[i][2], LabelAt(i))] :
              ivs \in [1 .. k -> Intervals] } : k \in 0 .. MaxRows }

\* The worked examples of the specification and of the CSV path.
ExampleRows ==
    { <<Row(0, 600, "sleep"), Row(300, 900, "work")>>,
      <<Row(0, 480, "SLEEP"), Row(480, DAY, " Work ")>>,
      <<Row(0, 600, "work"), Row(100, 200, "work"), Row(150, 1000, "tv"),
        Row(1000, DAY, "work")>> }

InputRows == GeneratedRows \cup ExampleRows

\* The builtin map plus the oracle's resolution of the gap sentinel.
ResolvedMap == [l \in DOMAIN ActivityMap \cup {GAP_LABEL} |->
                  IF l = GAP_LABEL THEN "peripheral" ELSE ActivityMap[l]]

InitNorm ==
    /\ rows \in InputRows
    /\ npc = "input"
    /\ merged = <<>>
    /\ filled = <<>>
    /\ refilled = <<>>
    /\ used_map = <<>>
    /\ validated = NoOutcome
    /\ ResolverOff
    /\ ScorersOff
    /\ ParserOff

\* merge_overlapping_rows(rows)
CallMergeOverlappingRows ==
    /\ npc = "input"
    /\ merged' = merge_overlapping_rows(rows)
    /\ npc' = "merged"
    /\ UNCHANGED <<rows, filled, refilled, used_map, validated, rvars, svars, pvars>>

\* load_calendar_schedule / compute_focus_for_date: rows = fill_gaps(rows, "unscheduled")
CallFillGaps ==
    /\ npc = "input"
    /\ filled' = fill_gaps(rows, GAP_LABEL)
    /\ npc' = "filled"
    /\ UNCHANGED <<rows, merged, refilled, used_map, validated, rvars, svars, pvars>>

\* compute_focus_from_csv: load_schedule_categories on the rows as authored
CallLoadScheduleCategories ==
    /\ npc = "input"
    /\ \E activity_map \in {ActivityMap, ResolvedMap} :
          /\ used_map' = activity_map
          /\ validated' = load_schedule_categories(rows, activity_map)
    /\ npc' = "categories"
    /\ UNCHANGED <<rows, merged, filled, refilled, rvars, svars, pvars>>

\* antientropy1.main: load_schedule_minutes on the rows as authored
CallLoadScheduleMinutes ==
    /\ npc = "input"
    /\ used_map' = Cat2Mode
    /\ validated' = load_schedule_minutes(rows, Cat2Mode)
    /\ npc' = "minutes"
    /\ UNCHANGED <<rows, merged, filled, refilled, rvars, svars, pvars>>

\* compute_focus_for_date: load_schedule_categories on fill_gaps's output
CallLoadScheduleCategoriesFilled ==
    /\ npc = "filled"
    /\ \E activity_map \in {ActivityMap, ResolvedMap} :
          /\ used_map' = activity_map
          /\ validated' = load_schedule_categories(filled, activity_map)
    /\ npc' = "filled_categories"
    /\ UNCHANGED <<rows, merged, filled, refilled, rvars, svars, pvars>>

\* fill_gaps on its own output
CallFillGapsAgain ==
    /\ npc = "filled"
    /\ refilled' = fill_gaps(filled, GAP_LABEL)
    /\ npc' = "refilled"
    /\ UNCHANGED <<rows, merged, filled, used_map, validated, rvars, svars, pvars>>

NextNorm ==
    \/ CallMergeOverlappingRows
    \/ CallFillGaps
    \/ CallFillGapsAgain
    \/ CallLoadScheduleCategoriesFilled

\* The lenient path: merge, fill, then score (calendar-derived schedules).
SpecNorm == InitNorm /\ [][NextNorm]_vars

NextStrict ==
    \/ CallLoadScheduleCategories
    \/ CallLoadScheduleMinutes

\* The strict path: directly authored schedules are validated, never repaired.
SpecStrict == InitNorm /\ [][NextStrict]_vars

----------------------------------------------------------------------------
(* Resolver state machine *)

\* Raw labels of the rows of a run.
RowLabelChoices == {" Work ", "yoga", " Yoga ", "zumba"}

LabelSets == {S \in SUBSET RowLabelChoices : Cardinality(S) >= 1 /\ Cardinality(S) <= MaxLabels}

Fillers(k) == {FillerLabels[i] : i \in 1 .. k}

\* Label sets around the preview limit of the unknown-activity error.
FilledLabelSets ==
    {S \cup Fillers(k) : S \in {{"zumba"}, {" Work "}}, k \in (PREVIEW_MAX - 1) .. MaxFill}

\* The caches a caller may hand in first; "junk" is no category.
InitialCaches ==
    { EmptyDict,
      [k \in {"work"} |-> "waste"],
      [k \in {"yoga"} |-> "junk"],
      [k \in {"work", "yoga", "zumba"} |->
          CASE k = "work" -> "waste" [] k = "yoga" -> "junk" [] OTHER -> "self-care"] }

\* What the oracle may answer: any subset of these labels, each with a token.
OracleKeys == {"yoga", "zumba"}

OracleTokens == {"core", " Waste ", "junk"}

OracleDicts == UNION {[K -> OracleTokens] : K \in SUBSET OracleKeys}

OracleContents ==
    {[kind |-> k, object |-> d] : k \in {"json_object", "wrapped_object"}, d \in OracleDicts}
    \cup {[kind |-> k, object |-> EmptyDict] : k \in {"non_object", "garbage"}}

InitResolve ==
    /\ rows = <<>>
    /\ npc = "off"
    /\ merged = <<>>
    /\ filled = <<>>
    /\ refilled = <<>>
    /\ used_map = <<>>
    /\ validated = NoOutcome
    /\ cache \in InitialCaches
    /\ rpc = "idle"
    /\ call = NoCall
    /\ stack = <<>>
    /\ oracle_log = NoLog
    /\ outcome = NoResult
    /\ ScorersOff
    /\ ParserOff

\* build_resolved_activity_map, up to its return, its raise, or the first
\* oracle request of classifier.classify_many(unknown).
BuildResolvedActivityMap(labels, classifier, cache_given) ==
    /\ rpc = "idle"
    /\ LET resolved == ResolvedBeforeOracle(ActivityMap, cache_given, cache)
           unknown == UnknownLabels(labels, resolved)
           classify == unknown # <<>> /\ classifier # "None"
       IN  /\ call' = [labels |-> labels, classifier |-> classifier,
                       cache_given |-> cache_given, cache_before |-> cache,
                       classify_calls |-> IF classify THEN 1 ELSE 0,
                       classify_arg |-> IF classify THEN unknown ELSE <<>>]
           /\ oracle_log' = NoLog
           /\ IF unknown = <<>>
              THEN /\ outcome' = ReturnedMap(resolved, EmptyDict)
                   /\ UNCHANGED <<rpc, stack>>
              ELSE IF classifier = "None"
                   THEN /\ outcome' = RaisedError("Unknown activity label(s)",
                                                  Preview(unknown), Suffix(unknown))
                        /\ UNCHANGED <<rpc, stack>>
                   ELSE /\ outcome' = NoResult
                        /\ rpc' = "waiting"
                        /\ stack' = <<Frame(unknown, EmptyDict, 0)>>
    /\ UNCHANGED <<cache, nvars, svars, pvars>>

\* The rows of a run: a few raw labels, or enough filler labels to reach
\* the preview limit of the unknown-activity error (those without oracle).
Run ==
    \/ \E labels \in LabelSets, classifier \in {"None", "Grok"}, cache_given \in BOOLEAN :
          BuildResolvedActivityMap(labels, classifier, cache_given)
    \/ \E labels \in FilledLabelSets, cache_given \in BOOLEAN :
          BuildResolvedActivityMap(labels, "None", cache_given)

\* urlopen raises HTTPError or URLError: classify_many raises RuntimeError,
\* which leaves every frame and build_resolved_activity_map.
TransportFailure ==
    /\ rpc = "waiting"
    /\ oracle_log' = Logged(oracle_log, stack[Len(stack)].activities_list,
                            "transport", EmptyDict)
    /\ outcome' = RaisedError("LLM request failed", <<>>, "")
    /\ rpc' = "idle"
    /\ stack' = <<>>
    /\ UNCHANGED <<cache, call, nvars, svars, pvars>>

\* The oracle answers the pending request with content: classify_many runs
\* on to the next request, or returns through every frame to
\* build_resolved_activity_map, which merges and caches the result.
OracleResponds(content) ==
    /\ rpc = "waiting"
    /\ LET top == stack[Len(stack)]
           below == SubSeq(stack, 1, Len(stack) - 1)
           p == ParseJsonObject(content)
           mapping == ResponseMapping(top.activities_list, p.parsed)
           missing == ResponseMissing(top.activities_list, p.parsed)
           classified == Unwind(below, Fallback(top.activities_list, mapping))
       IN  /\ oracle_log' = Logged(oracle_log, top.activities_list,
                                   IF content.kind \in {"json_object", "wrapped_object"}
                                   THEN "object" ELSE content.kind,
                                   content.object)
           /\ IF p.raised
              THEN /\ outcome' = RaisedError(p.error, <<>>, "")
                   /\ rpc' = "idle"
                   /\ stack' = <<>>
                   /\ UNCHANGED cache
              ELSE IF RetryAllowed(missing, top.retry_count)
                   THEN /\ stack' = Append(below, Frame(top.activities_list, mapping,
                                                        top.retry_count))
                                    \o <<Frame(missing, EmptyDict, top.retry_count + 1)>>
                        /\ UNCHANGED <<outcome, rpc, cache>>
                   ELSE /\ outcome' = ReturnedMap(
                               Update(ResolvedBeforeOracle(ActivityMap, call.cache_given,
                                                           cache),
                                      classified),
                               classified)
                        /\ cache' = CacheUpdate(call.cache_given, cache, classified)
                        /\ rpc' = "idle"
                        /\ stack' = <<>>
    /\ UNCHANGED <<call, nvars, svars, pvars>>

Respond == \E content \in OracleContents : OracleResponds(content)

NextResolve ==
    \/ Run
    \/ TransportFailure
    \/ Respond

\* Successive runs of the activity resolver on one caller-owned cache.
SpecResolve == InitResolve /\ [][NextResolve]_vars

\* The first run only.
RunOnce == call = NoCall /\ Run

NextClassify ==
    \/ RunOnce
    \/ TransportFailure
    \/ Respond

\* One run of the resolver. urlopen is called with timeout=self.timeout, so
\* every pending request is answered or fails.
SpecClassify ==
    InitResolve /\ [][NextClassify]_vars /\ WF_vars(TransportFailure \/ Respond)

----------------------------------------------------------------------------
(* Scorer state machine: a timeline, then the two scorers on it *)

\* Most runs of one category in a generated timeline.
MaxSegs == 3

\* Minutes at which a generated timeline may change category.
CutTicks == {1, 480, 1439}

\* The timeline that takes the next category of cats at every cut.
TimelineOf(cuts, cats) ==
    [t \in Minutes |-> cats[1 + Cardinality({c \in cuts : c <= t})]]

Timelines ==
    {TimelineOf(cuts, cats) :
        cuts \in {S \in SUBSET CutTicks : Cardinality(S) < MaxSegs},
        cats \in [1 .. MaxSegs -> CATEGORIES]}

InitScore ==
    /\ categories \in Timelines
    /\ blocks = NoBlocks
    /\ entropy = NoEntropy
    /\ focus = NoFocus
    /\ NormalizerOff
    /\ ResolverOff
    /\ ParserOff

\* antientropy1.main: build_block_labels(minutes)
CallBuildBlockLabels ==
    /\ categories # <<>>
    /\ blocks = NoBlocks
    /\ blocks' = build_block_labels(categories)
    /\ UNCHANGED <<categories, entropy, focus, nvars, rvars, pvars>>

\* antientropy1.main: k, compute_entropy, h_norm * k, antientropy
CallEntropyScore ==
    /\ blocks # NoBlocks
    /\ entropy = NoEntropy
    /\ entropy' = EntropyScore(blocks.block_durations)
    /\ UNCHANGED <<categories, blocks, focus, nvars, rvars, pvars>>

\* compute_focus_from_categories(categories)
CallComputeFocusFromCategories ==
    /\ categories # <<>>
    /\ focus = NoFocus
    /\ focus' = compute_focus_from_categories(categories)
    /\ UNCHANGED <<categories, blocks, entropy, nvars, rvars, pvars>>

NextScore ==
    \/ CallBuildBlockLabels
    \/ CallEntropyScore
    \/ CallComputeFocusFromCategories

\* Both scorers on one validated timeline.
SpecScore == InitScore /\ [][NextScore]_vars

----------------------------------------------------------------------------
(* Parser state machine: a time text, then parse_time_to_minute on it *)

\* Largest hour and minute numbers written into a generated text.
MaxHour == 25

MaxMinute == 61

\* str(n) for n >= 0
RECURSIVE Decimal(_)
Decimal(n) ==
    IF n < 10 THEN <<DigitChars[n + 1]>>
    ELSE Append(Decimal(n \div 10), DigitChars[(n % 10) + 1])

\* How a number is written: "plain" as str(n), "padded" to two digits.
NumberText(n, style) ==
    IF n < 0 THEN <<"-">> \o Decimal(0 - n)
    ELSE IF style = "padded" /\ n < 10 THEN <<"0">> \o Decimal(n)
    ELSE Decimal(n)

TextStyles == {"plain", "padded", "spaced"}

\* The text of hour h and minute m in a style; "spaced" puts blanks around
\* the text and around the colon.
TimeText(h, m, style) ==
    IF style = "spaced"
    THEN <<" ">> \o NumberText(h, "plain") \o <<" ", ":", " ">> \o NumberText(m, "padded") \o <<" ">>
    ELSE NumberText(h, style) \o <<":">> \o NumberText(m, style)

\* Every generated text with the hour and minute written into it.
TimeTable ==
    {[text |-> TimeText(h, m, style), hour |-> h, minute |-> m] :
        h \in -1 .. MaxHour, m \in -1 .. MaxMinute, style \in TextStyles}

\* Texts that do not have two integer parts.
OtherTexts ==
    { <<>>,
      <<"7">>,
      <<"1", ":", "2", ":", "3">>,
      <<"2", "4", ":", "0", "0", ":", "0", "0">>,
      <<"a", ":", "b">>,
      <<"1", "2", ":">>,
      <<":", "3", "0">>,
      <<"1", "2", ":", "x", "5">>,
      <<"1", "2", " ", "3", "0">> }

TimeTexts == {e.text : e \in TimeTable} \cup OtherTexts

InitParse ==
    /\ time_value \in TimeTexts
    /\ time_result = NoParse
    /\ NormalizerOff
    /\ ResolverOff
    /\ ScorersOff

\* load_schedule_rows / load_schedule_minutes: parse_time_to_minute(start_s)
CallParseTimeToMinute ==
    /\ time_result = NoParse
    /\ time_result' = parse_time_to_minute(time_value)
    /\ UNCHANGED <<time_value, nvars, rvars, svars>>

NextParse == CallParseTimeToMinute

SpecParse == InitParse /\ [][NextParse]_vars

----------------------------------------------------------------------------
(* Properties of the interval normalizer and the strict validators *)

Covers(r, t) == r.start <= t /\ t < r.end

Covering(rs, t) == {i \in DOMAIN rs : Covers(rs[i], t)}

SortedByStart(rs) == \A i, j \in DOMAIN rs : i < j => rs[i].start <= rs[j].start

Chained(tl) ==
    /\ Len(tl) >= 1
    /\ tl[1].start = 0
    /\ tl[Len(tl)].end = DAY
    /\ \A i \in DOMAIN tl : tl[i].start < tl[i].end
    /\ \A i \in DOMAIN tl : i > 1 => tl[i].start = tl[i - 1].end
    /\ SortedByStart(tl)

\* C1: for every list of valid intervals, sorted or not, fill_gaps returns a
\* list sorted by start, with start < end throughout, beginning at 0, ending
\* at 1440, each start equal to the previous end; every minute 0..1439 lies
\* in exactly one interval of it.
C1_FillGapsPartitionsDay ==
    npc = "filled" =>
        /\ Chained(filled)
        /\ \A t \in Minutes : Cardinality(Covering(filled, t)) = 1

\* An unsorted, overlapping, gapped input has been filled.
C1_Witness ==
    /\ npc = "filled"
    /\ ~SortedByStart(rows)
    /\ \E i, j \in DOMAIN rows : i < j /\ rows[j].start < rows[i].end /\ rows[i].start < rows[j].end
    /\ \E k \in DOMAIN filled : filled[k].activity = GAP_LABEL
    /\ Len(filled) >= 3

\* C2: on intervals sorted by start, merge_overlapping_rows is "first interval
\* wins": the output does not overlap, covers exactly the minutes the input
\* covers, gives every covered minute the label of the earliest input interval
\* covering it, and each output interval is an input interval whole or cut
\* down to its tail.
C2_FirstIntervalWins ==
    (npc = "merged" /\ SortedByStart(rows)) =>
        /\ \A k \in DOMAIN merged : merged[k].start < merged[k].end
        /\ \A k, l \in DOMAIN merged : k < l => merged[k].end <= merged[l].start
        /\ \A t \in Minutes :
              LET src == Covering(rows, t)
                  out == Covering(merged, t)
              IN  IF src = {} THEN out = {}
                  ELSE /\ Cardinality(out) = 1
                       /\ LET first == CHOOSE i \in src : \A j \in src : i <= j
                          IN  \A k \in out : merged[k].activity = rows[first].activity
        /\ \A k \in DOMAIN merged :
              \E i \in DOMAIN rows :
                 /\ merged[k].activity = rows[i].activity
                 /\ merged[k].end = rows[i].end
                 /\ merged[k].start >= rows[i].start
                 /\ merged[k].start > rows[i].start =>
                       \E j \in 1 .. (i - 1) : rows[j].end = merged[k].start
        /\ (rows # <<>> => merged[1] = rows[1])

\* The example of the specification: the second interval is truncated.
C2_Witness ==
    /\ npc = "merged"
    /\ rows = <<Row(0, 600, "sleep"), Row(300, 900, "work")>>
    /\ merged = <<Row(0, 600, "sleep"), Row(600, 900, "work")>>

DoublyCovered(rs) == \E t \in Minutes : Cardinality(Covering(rs, t)) >= 2

Uncovered(rs) == \E t \in Minutes : Covering(rs, t) = {}

StrictDone == npc \in {"categories", "minutes"}

\* The value the validator in use assigns to a row's minutes.
StrictValue(r) ==
    IF npc = "categories" THEN ResolvedMap[Normalize(r.activity)]
    ELSE IF r.activity \in DOMAIN Cat2Mode THEN Cat2Mode[r.activity] ELSE r.activity

\* C3 as stated: any doubly covered minute raises the overlap error, any
\* uncovered minute raises the coverage error, and a timeline is returned
\* only for an exact partition.
C3_AsStated ==
    StrictDone =>
        /\ DoublyCovered(rows) =>
              validated.status = "raised" /\ validated.error = "Overlapping schedule"
        /\ Uncovered(rows) =>
              validated.status = "raised"
              /\ validated.error = "Schedule does not cover the full 24h day"
        /\ validated.status = "returned" => ~DoublyCovered(rows) /\ ~Uncovered(rows)

\* C3 (amended): the strict validators never repair. A doubly covered minute
\* raises the overlap error, naming a minute that two rows cover; an
\* uncovered minute raises the coverage error when no minute is doubly
\* covered (the overlap is detected first, during the scan); and exactly an
\* exact partition returns a 1440-entry timeline without None, each minute
\* carrying its own row's value.
C3_StrictNeverRepairs ==
    StrictDone =>
        /\ DoublyCovered(rows) =>
              /\ validated.status = "raised"
              /\ validated.error = "Overlapping schedule"
              /\ validated.minute \in Minutes
              /\ Cardinality(Covering(rows, validated.minute)) >= 2
        /\ (Uncovered(rows) /\ ~DoublyCovered(rows)) =>
              /\ validated.status = "raised"
              /\ validated.error = "Schedule does not cover the full 24h day"
        /\ (~Uncovered(rows) /\ ~DoublyCovered(rows)) =>
              /\ validated.status = "returned"
              /\ DOMAIN validated.minutes = Minutes
              /\ \A t \in Minutes :
                    /\ validated.minutes[t] # NoneVal
                    /\ \A i \in Covering(rows, t) : validated.minutes[t] = StrictValue(rows[i])

\* An exact partition of three rows has been validated and returned.
C3_Witness ==
    /\ StrictDone
    /\ Len(rows) = 3
    /\ validated.status = "returned"
    /\ validated.minutes[0] # validated.minutes[DAY - 1]

----------------------------------------------------------------------------
(* Properties of the activity resolver *)

ValidEntries(c) == {k \in DOMAIN c : c[k] \in CATEGORIES}

\* The cache argument of the current run as the resolver reads it.
CacheArg == IF call.cache_given THEN call.cache_before ELSE EmptyDict

\* The normalized row labels that neither the builtin map nor a valid cache
\* entry resolves.
Unresolved ==
    {Normalize(a) : a \in call.labels} \ (DOMAIN ActivityMap \cup ValidEntries(CacheArg))

LabelRank(l) == CHOOSE i \in DOMAIN LabelOrder : LabelOrder[i] = l

\* The labels of a request that its answer left absent or invalid.
LeftMissing(request, object) ==
    {a \in Range(request) : a \notin DOMAIN object \/ object[a] \notin DOMAIN TokenCategory}

ClassifyManyReturned ==
    outcome.status = "returned" /\ call.classifier = "Grok" /\ Unresolved # {}

\* C4: whenever classify_many returns for a non-empty request, the mapping's
\* keys are exactly the requested labels and every value is a category; a
\* label never answered with a category, in the initial attempt and in both
\* retries, is mapped to "peripheral".
C4_CompleteMapping ==
    ClassifyManyReturned =>
        /\ DOMAIN outcome.classified = Unresolved
        /\ \A a \in Unresolved : outcome.classified[a] \in CATEGORIES
        /\ \A a \in Unresolved :
              a \notin DOMAIN oracle_log.valid =>
                 /\ oracle_log.asked[a] = RETRY_LIMIT + 1
                 /\ outcome.classified[a] = "peripheral"

\* One label was answered, another was left out three times and defaulted.
C4_Witness ==
    /\ ClassifyManyReturned
    /\ oracle_log.requests = 3
    /\ \E a, b \in Unresolved :
          /\ a \in DOMAIN oracle_log.valid
          /\ b \notin DOMAIN oracle_log.valid
          /\ outcome.classified[b] = "peripheral"
          /\ outcome.classified[a] = "waste"

\* At most 3 requests per run; a retry request holds exactly the labels its
\* preceding answer left absent or invalid, a subset of the preceding
\* request, and is never empty.
RetriesBounded ==
    /\ oracle_log.requests + (IF rpc = "waiting" THEN 1 ELSE 0) <= 3
    /\ rpc = "waiting" =>
          LET current == stack[Len(stack)].activities_list
              last == oracle_log.last
          IN  /\ current # <<>>
              /\ Len(stack) = oracle_log.requests + 1
              /\ Len(current) = Cardinality(Range(current))
              /\ oracle_log.requests >= 1 =>
                    /\ last.kind = "object"
                    /\ Range(current) = LeftMissing(last.request, last.object)
                    /\ Range(current) \subseteq Range(last.request)

\* C5: one top-level classify_many issues at most 3 oracle requests (the
\* initial one and at most 2 retries) whatever the oracle answers, and always
\* terminates; each retry request holds exactly the labels absent or invalid
\* in the immediately preceding response, a subset of the previous request,
\* and no retry is issued when nothing is missing.
C5_BoundedRetries ==
    /\ []RetriesBounded
    /\ (rpc = "waiting") ~> (rpc = "idle" /\ outcome.status \in {"returned", "raised"})

\* The third request is pending, for one of the two labels first requested.
C5_Witness ==
    /\ rpc = "waiting"
    /\ oracle_log.requests = 2
    /\ Len(stack[1].activities_list) = 2
    /\ Len(stack[Len(stack)].activities_list) = 1

MalformedKinds == {"garbage", "non_object"}

\* C6 as stated: content that is not JSON, or not a JSON object, raises
\* nothing; every requested label counts as missing and is retried, and the
\* caller still receives a complete mapping.
C6_MalformedIsMissing ==
    oracle_log.last.kind \in MalformedKinds =>
        /\ outcome.status # "raised"
        /\ rpc = "waiting" => stack[Len(stack)].activities_list = oracle_log.last.request
        /\ rpc = "idle" => DOMAIN outcome.classified = Unresolved

\* C7: without classifier, a run with unresolved labels raises the
\* unknown-activity error naming the first min(n, 10) of the n unresolved
\* labels in sorted order, returns no map and leaves the cache as it was; a
\* run whose labels are all resolved by builtin map or cache returns without
\* any oracle request.
C7_UnknownActivityWithoutOracle ==
    (rpc = "idle" /\ call.classifier = "None" /\ call.labels # {}) =>
        IF Unresolved # {}
        THEN /\ outcome.status = "raised"
             /\ outcome.error = "Unknown activity label(s)"
             /\ Len(outcome.preview) = Min(Cardinality(Unresolved), 10)
             /\ Range(outcome.preview) \subseteq Unresolved
             /\ \A i, j \in DOMAIN outcome.preview :
                   i < j => LabelRank(outcome.preview[i]) < LabelRank(outcome.preview[j])
             /\ \A a \in Unresolved \ Range(outcome.preview) :
                   \A b \in Range(outcome.preview) : LabelRank(b) < LabelRank(a)
             /\ outcome.resolved = EmptyDict
             /\ cache = call.cache_before
        ELSE /\ outcome.status = "returned"
             /\ {Normalize(a) : a \in call.labels} \subseteq DOMAIN outcome.resolved
             /\ oracle_log.requests = 0
             /\ cache = call.cache_before

\* Twelve labels are unresolved and ten of them are named.
C7_Witness ==
    /\ rpc = "idle"
    /\ call.classifier = "None"
    /\ Cardinality(Unresolved) = 12
    /\ outcome.status = "raised"
    /\ Len(outcome.preview) = 10
    /\ call.cache_before # EmptyDict

\* The cache entries the run wrote.
Written ==
    {k \in DOMAIN cache : k \notin DOMAIN call.cache_before \/ cache[k] # call.cache_before[k]}

\* C8 as stated: after a run with oracle and cache, the entries written into
\* the cache are exactly the oracle's successful resolutions; a label that
\* only received the forced default is not cached.
C8_OnlySuccessfulCached ==
    (ClassifyManyReturned /\ call.cache_given) =>
        /\ \A a \in DOMAIN oracle_log.valid :
              a \in DOMAIN cache /\ cache[a] = TokenCategory[oracle_log.valid[a]]
        /\ Written \subseteq DOMAIN oracle_log.valid

\* C9: over successive runs on one cache the resolver only reads and
\* appends: no key is ever removed, and an entry holding one of the four
\* categories keeps its value.
C9_CacheOnlyGrows ==
    [][ /\ DOMAIN cache \subseteq DOMAIN cache'
        /\ \A k \in DOMAIN cache : cache[k] \in CATEGORIES => cache'[k] = cache[k] ]_vars

\* A run on a cache with valid entries has added an entry to it.
C9_Witness ==
    /\ outcome.status = "returned"
    /\ call.cache_given
    /\ ValidEntries(call.cache_before) # {}
    /\ Written # {}
    /\ DOMAIN cache # DOMAIN call.cache_before

\* C10: the resolved map merges builtin map, then valid cache entries, then
\* the fresh oracle results: a label in both builtin map and cache resolves to
\* the cache's category, no label resolved by builtin map or valid cache
\* entry is ever sent to the oracle, and a cache entry that holds no category
\* is ignored.
C10_MergePrecedence ==
    /\ \A a \in DOMAIN oracle_log.asked :
          a \notin DOMAIN ActivityMap \cup ValidEntries(CacheArg)
    /\ rpc = "waiting" =>
          \A a \in Range(stack[Len(stack)].activities_list) :
             a \notin DOMAIN ActivityMap \cup ValidEntries(CacheArg)
    /\ outcome.status = "returned" =>
          /\ DOMAIN outcome.resolved =
                DOMAIN ActivityMap \cup ValidEntries(CacheArg) \cup Unresolved
          /\ \A k \in DOMAIN outcome.resolved :
                outcome.resolved[k] =
                   IF k \in ValidEntries(CacheArg) THEN CacheArg[k]
                   ELSE IF k \in DOMAIN ActivityMap THEN ActivityMap[k]
                   ELSE outcome.classified[k]
          /\ \A k \in DOMAIN outcome.resolved : outcome.resolved[k] \in CATEGORIES

\* "work" is in builtin map and cache, "yoga" has an invalid cache entry and
\* went to the oracle.
C10_Witness ==
    /\ outcome.status = "returned"
    /\ call.cache_given
    /\ " Work " \in call.labels
    /\ "work" \in ValidEntries(CacheArg)
    /\ CacheArg["work"] # ActivityMap["work"]
    /\ outcome.resolved["work"] = CacheArg["work"]
    /\ "yoga" \in DOMAIN CacheArg /\ CacheArg["yoga"] \notin CATEGORIES
    /\ "yoga" \in DOMAIN oracle_log.valid
    /\ outcome.resolved["yoga"] = "core"

\* C11: a run of build_resolved_activity_map calls classify_many at most
\* once, and then with the whole set of normalized labels that neither
\* builtin map nor cache resolves, each of them once; it never calls it once
\* per label, and never when nothing is unresolved.
C11_OneBatchedCall ==
    call # NoCall =>
        /\ call.classify_calls <= 1
        /\ Unresolved = {} =>
              /\ call.classify_calls = 0
              /\ oracle_log.requests = 0
              /\ rpc = "idle"
        /\ call.classify_calls = 1 =>
              /\ call.classifier = "Grok"
              /\ Range(call.classify_arg) = Unresolved
              /\ Len(call.classify_arg) = Cardinality(Unresolved)
        /\ (Unresolved # {} /\ call.classifier = "Grok") => call.classify_calls = 1
        /\ oracle_log.requests >= 1 => call.classify_calls = 1

\* Two labels were unresolved and went to the oracle in one call.
C11_Witness ==
    /\ outcome.status = "returned"
    /\ Cardinality(Unresolved) = 2
    /\ call.classify_calls = 1
    /\ Len(call.classify_arg) = 2
    /\ oracle_log.requests = 1

\* C18: a transport failure of an oracle request, on the initial attempt or
\* on a retry, is raised out of classify_many and build_resolved_activity_map:
\* no map is returned, nothing is defaulted, and the cache stays as it was.
C18_TransportFailurePropagates ==
    oracle_log.last.kind = "transport" =>
        /\ rpc = "idle"
        /\ stack = <<>>
        /\ outcome.status = "raised"
        /\ outcome.error = "LLM request failed"
        /\ outcome.resolved = EmptyDict
        /\ outcome.classified = EmptyDict
        /\ cache = call.cache_before

\* The second retry failed after an earlier answer had named a category.
C18_Witness ==
    /\ oracle_log.last.kind = "transport"
    /\ oracle_log.requests = 3
    /\ oracle_log.valid # EmptyDict
    /\ call.cache_given
    /\ outcome.status = "raised"

----------------------------------------------------------------------------
(* Properties of the scorers *)

\* The minutes at which a maximal run of equal entries begins.
RunStarts == {t \in Minutes : t = 0 \/ categories[t] # categories[t - 1]}

\* The i-th run in temporal order, given the set of run starts: its first
\* and its last minute.
RunFirst(starts, i) == CHOOSE a \in starts : Cardinality({s \in starts : s < a}) = i - 1

RunLast(starts, i) ==
    LET later == {s \in starts : s > RunFirst(starts, i)}
    IN  IF later = {} THEN DAY - 1 ELSE (CHOOSE s \in later : \A u \in later : s <= u) - 1

RECURSIVE SumOver(_, _)
SumOver(f, S) ==
    IF S = {} THEN 0
    ELSE LET x == CHOOSE y \in S : TRUE IN f[x] + SumOver(f, S \ {x})

\* C12: build_block_labels yields exactly the maximal runs of equal
\* consecutive entries: block_order holds one block per run, in temporal
\* order and under distinct names; each block's duration is its run's length,
\* between 1 and 1440; block_labels[t] names the block of minute t; the
\* durations sum to 1440, also when a category recurs in disjoint runs.
C12_BlocksAreMaximalRuns ==
    blocks # NoBlocks =>
        LET starts == RunStarts
        IN  /\ Len(blocks.block_order) = Cardinality(starts)
            /\ \A i, j \in DOMAIN blocks.block_order :
                  i # j => blocks.block_order[i] # blocks.block_order[j]
            /\ DOMAIN blocks.block_durations = Range(blocks.block_order)
            /\ DOMAIN blocks.block_labels = Minutes
            /\ \A i \in DOMAIN blocks.block_order :
                  LET name == blocks.block_order[i]
                      first == RunFirst(starts, i)
                      last == RunLast(starts, i)
                  IN  /\ blocks.block_durations[name] = last - first + 1
                      /\ blocks.block_durations[name] >= 1
                      /\ blocks.block_durations[name] <= DAY
                      /\ \A t \in first .. last : blocks.block_labels[t] = name
            /\ SumOver(blocks.block_durations, DOMAIN blocks.block_durations) = DAY

\* Three runs, the first and the last of the same category.
C12_Witness ==
    /\ blocks # NoBlocks
    /\ Len(blocks.block_order) = 3
    /\ categories[0] = categories[DAY - 1]
    /\ categories[0] # categories[480]
    /\ blocks.block_labels[0] # blocks.block_labels[DAY - 1]

\* The minutes at which the category differs from the minute before.
ChangePoints == {t \in 1 .. (DAY - 1) : categories[t] # categories[t - 1]}

\* The directed weight of the change at minute t: previous first, current second.
ChangeWeight == [t \in ChangePoints |-> SWITCH_WEIGHTS[<<categories[t - 1], categories[t]>>]]

SelfCareThenCore == [t \in Minutes |-> IF t < 480 THEN "self-care" ELSE "core"]

\* C13: compute_switch_penalty returns the number of minutes 1..1439 whose
\* category differs from the minute before, and the sum of the directed
\* weights (previous, current) of those changes; self-care for 0..479 then
\* core gives 1 switch and the weight of self-care -> core.
C13_SwitchPenaltyDirected ==
    focus # NoFocus =>
        /\ focus.switches = Cardinality(ChangePoints)
        /\ focus.penalty = SumOver(ChangeWeight, ChangePoints)
        /\ categories = SelfCareThenCore =>
              /\ focus.switches = 1
              /\ focus.penalty = SWITCH_WEIGHTS[<<"self-care", "core">>]
              /\ focus.penalty # SWITCH_WEIGHTS[<<"core", "self-care">>]

\* The example of the specification has been scored.
C13_Witness ==
    /\ focus # NoFocus
    /\ categories = SelfCareThenCore
    /\ focus.switches = 1
    /\ focus.penalty = 2

SingleCategoryDay == categories # <<>> /\ \A t \in Minutes : categories[t] = categories[0]

\* C14: a timeline of one category throughout gives one block of 1440
\* minutes, K = 1, H = 0 and infinite antientropy from the entropy scorer,
\* and 0 switches, penalty 0 and infinite focus from the switch scorer.
C14_SingleCategoryDay ==
    SingleCategoryDay =>
        /\ blocks # NoBlocks =>
              /\ Len(blocks.block_order) = 1
              /\ blocks.block_durations[blocks.block_order[1]] = DAY
        /\ entropy # NoEntropy =>
              /\ entropy.k = 1
              /\ entropy.h_zero
              /\ entropy.antientropy = Infinity
        /\ focus # NoFocus =>
              /\ focus.switches = 0
              /\ focus.penalty = 0
              /\ focus.focus = Infinity

\* Both scorers have scored a single-category day.
C14_Witness ==
    /\ SingleCategoryDay
    /\ entropy # NoEntropy
    /\ focus # NoFocus
    /\ entropy.k = 1

\* C15: neither scorer divides by zero: focus is infinite exactly when the
\* penalty is 0 and 1000 / penalty otherwise; antientropy is infinite
\* exactly when H_norm * K is 0 and 1000 / (H_norm * K) otherwise.
C15_NoZeroDivisor ==
    /\ focus # NoFocus =>
          /\ focus.focus.kind \in {"inf", "finite"}
          /\ focus.focus.kind = "inf" <=> focus.penalty = 0
          /\ focus.penalty # 0 =>
                focus.focus = [kind |-> "finite", num |-> 1000, den |-> focus.penalty]
    /\ entropy # NoEntropy =>
          /\ entropy.antientropy.kind \in {"inf", "finite"}
          /\ entropy.antientropy.kind = "inf" <=> entropy.h_scaled_zero
          /\ ~entropy.h_scaled_zero =>
                entropy.antientropy =
                   [kind |-> "finite", num |-> 1000,
                    den |-> [h |-> entropy.h, k |-> entropy.k]]

\* A day with zero penalty and several blocks: focus is infinite,
\* antientropy is finite.
C15_Witness ==
    /\ focus # NoFocus
    /\ entropy # NoEntropy
    /\ focus.penalty = 0
    /\ focus.focus.kind = "inf"
    /\ entropy.k >= 2
    /\ entropy.antientropy.kind = "finite"

WasteThenCore == [t \in Minutes |-> IF t < 480 THEN "waste" ELSE "core"]

\* The changes that are not waste -> core.
CostlyChanges ==
    {t \in ChangePoints : <<categories[t - 1], categories[t]>> # <<"waste", "core">>}

\* C19: infinite focus does not mean no category change: a timeline whose
\* only changes are waste -> core has switches >= 1 with penalty 0 and
\* infinite focus; a timeline with any other change has a positive penalty
\* and a finite focus.
C19_InfiniteFocusWithSwitches ==
    focus # NoFocus =>
        /\ SWITCH_WEIGHTS[<<"waste", "core">>] = 0
        /\ (ChangePoints # {} /\ CostlyChanges = {}) =>
              /\ focus.switches >= 1
              /\ focus.penalty = 0
              /\ focus.focus = Infinity
        /\ CostlyChanges # {} =>
              /\ focus.penalty > 0
              /\ focus.focus.kind = "finite"
        /\ categories = WasteThenCore => focus.switches = 1 /\ focus.focus = Infinity

\* Waste for 0..479, then core: one switch, infinite focus.
C19_Witness ==
    /\ focus # NoFocus
    /\ categories = WasteThenCore
    /\ focus.switches = 1
    /\ focus.penalty = 0
    /\ focus.focus.kind = "inf"

----------------------------------------------------------------------------
(* Properties of the time parser *)

\* What the text means when hour h and minute m are written into it.
TimeExpected(h, m) ==
    IF h = 24 /\ m = 0 THEN [status |-> "returned", minute |-> DAY]
    ELSE IF 0 <= h /\ h <= 23 /\ 0 <= m /\ m <= 59
         THEN [status |-> "returned", minute |-> 60 * h + m]
         ELSE [status |-> "raised", minute |-> -1]

ColonCount(s) == Cardinality({i \in DOMAIN s : s[i] = ":"})

\* C16: on a text with two integer parts (h, m) parse_time_to_minute returns
\* 60*h + m for 0 <= h <= 23 and 0 <= m <= 59, 1440 for (24, 0), and fails
\* for every other pair; a result lies in 0..1440 and 1440 comes from (24, 0)
\* only; "23:59" gives 1439, "12:5" gives 725, "24:01" fails; a text without
\* exactly two parts fails.
C16_ParseTimeToMinute ==
    time_result # NoParse =>
        /\ \A e \in TimeTable :
              e.text = time_value =>
                 /\ time_result.status = TimeExpected(e.hour, e.minute).status
                 /\ time_result.minute = TimeExpected(e.hour, e.minute).minute
                 /\ time_result.minute = DAY => (e.hour = 24 /\ e.minute = 0)
        /\ time_result.status = "returned" =>
              (0 <= time_result.minute /\ time_result.minute <= DAY)
        /\ time_value = <<"2", "3", ":", "5", "9">> => time_result.minute = 1439
        /\ time_value = <<"1", "2", ":", "5">> => time_result.minute = 725
        /\ time_value = <<"2", "4", ":", "0", "0">> => time_result.minute = DAY
        /\ time_value = <<"2", "4", ":", "0", "1">> => time_result.status = "raised"
        /\ ColonCount(time_value) # 1 => time_result.status = "raised"

\* "12:5" has been parsed to 725.
C16_Witness ==
    /\ time_value = <<"1", "2", ":", "5">>
    /\ time_result.status = "returned"
    /\ time_result.minute = 725

----------------------------------------------------------------------------
(* Further properties of the interval normalizer *)

\* C17: fill_gaps is idempotent: a sorted list without overlap that covers
\* [0, 1440) exactly comes back unchanged, and for any list of valid
\* intervals the second pass returns the first pass's output, adding and
\* altering nothing.
C17_FillGapsIdempotent ==
    /\ (npc = "filled" /\ Chained(rows)) => filled = rows
    /\ npc = "refilled" => refilled = filled

\* An unsorted list with overlap and gaps went through fill_gaps twice.
C17_Witness ==
    /\ npc = "refilled"
    /\ ~SortedByStart(rows)
    /\ Len(filled) >= 3
    /\ \E k \in DOMAIN filled : filled[k].activity = GAP_LABEL
    /\ \E k \in DOMAIN refilled : refilled[k].activity # GAP_LABEL

\* The activity map handed to the validator resolves every label of the rows.
ResolvesAll(rs) == \A i \in DOMAIN rs : Normalize(rs[i].activity) \in DOMAIN used_map

\* C20: for any list of valid intervals sorted by start (empty, overlapping
\* or gapped), load_schedule_categories on fill_gaps's output, with a map
\* that resolves every label including the sentinel, raises neither the
\* overlap nor the coverage error and returns a 1440-entry timeline without
\* None, in which every minute no input interval covers carries the
\* sentinel's category.
C20_LenientFeedsStrict ==
    (npc = "filled_categories" /\ SortedByStart(rows)) =>
        /\ validated.error \notin {"Overlapping schedule",
                                   "Schedule does not cover the full 24h day"}
        /\ ResolvesAll(filled) =>
              /\ validated.status = "returned"
              /\ DOMAIN validated.minutes = Minutes
              /\ \A t \in Minutes :
                    /\ validated.minutes[t] # NoneVal
                    /\ Covering(rows, t) = {} => validated.minutes[t] = used_map[GAP_LABEL]

\* A sorted list with an overlap and a gap was filled and validated.
C20_Witness ==
    /\ npc = "filled_categories"
    /\ SortedByStart(rows)
    /\ DoublyCovered(rows)
    /\ Uncovered(rows)
    /\ validated.status = "returned"
    /\ \E t \in Minutes : validated.minutes[t] = used_map[GAP_LABEL]

====
